---------------------------- MODULE Spec2Model ----------------------------
(***************************************************************************)
(* Threshold Paillier (Damgard-Jurik) library niclabs/tcpaillier.          *)
(*                                                                         *)
(* The model follows the Go sources: key generation (NewFixedKey), the     *)
(* homomorphic operations of PubKey (EncryptFixed, Add, MultiplyFixed,     *)
(* ReRand), the threshold decryption (KeyShare.PartialDecryption,          *)
(* PubKey.CombineShares) and the three zero-knowledge proofs with their    *)
(* verifiers.  math/big integers are modelled by TLA+ integers; the keys   *)
(* are built by NewFixedKey from the smallest safe primes, so that every   *)
(* intermediate product stays below 2^31.                                  *)
(***************************************************************************)
EXTENDS Integers, Sequences, FiniteSets, TLC

VARIABLES
    pk,         \* the PubKey returned by key generation
    keyShares,  \* the KeyShares returned by key generation
    cached,     \* pk.cached
    ct,         \* the ciphertexts returned by Encrypt so far
    acc,        \* the ciphertext returned by the last Add or Multiply
    dec,        \* the decryption shares of the current ciphertext
    prf,        \* the last proof produced, with the values it is about
    op,         \* the last call: its name, arguments and results
    callers,    \* the goroutines inside pk.Cache(): position and result
    gen         \* NewKey in progress: position and the primes drawn so far

vars == <<pk, keyShares, cached, ct, acc, dec, prf, op, callers, gen>>

(***************************************************************************)
(* Bounds of the model.                                                    *)
(***************************************************************************)
\* the model's stand-in for the 2^256 values of a SHA-256 digest
HashSpace == 61
\* plaintexts are sampled from 0..MaxMsg and a few larger values
MaxMsg == 0
\* the number of goroutines that call pk.Cache() on the same key
NCallers == 2
\* NewKey is called with a bitSize of MinKeyBits..MaxKeyBits, small enough to
\* enumerate the primes rand.Prime can return
MinKeyBits == 15
\* the Lagrange coefficients are computed for keys of 2..MaxLagrangeL shares
MaxLagrangeL == 6
MaxKeyBits == 18
\* Add is called on lists of at most MaxAdd values
MaxAdd == 2
\* number of shares l of the generated keys: 2..MaxL
MaxL == 3

\* values of the parameter s of the generated keys
SValues == {1, 2}

(***************************************************************************)
(* math/big                                                                *)
(***************************************************************************)
\* a nil *big.Int (the result of Exp or ModInverse when no inverse exists)
NIL == -1

Abs(x) == IF x < 0 THEN -x ELSE x

RECURSIVE GCD(_, _)
\* big.Int.GCD on non-negative operands
GCD(a, b) == IF b = 0 THEN a ELSE GCD(b, a % b)

\* big.Int.Quo: division truncated towards zero
Quo(x, y) ==
    LET q == Abs(x) \div Abs(y)
    IN  IF (x < 0) = (y < 0) THEN q ELSE -q

RECURSIVE ExtInv(_, _, _, _)
\* extended Euclid on (r0, r1) carrying the coefficients of g
ExtInv(r0, r1, t0, t1) ==
    IF r1 = 0 THEN t0
    ELSE ExtInv(r1, r0 % r1, t1, t0 - (r0 \div r1) * t1)

\* big.Int.ModInverse(g, n): the inverse of g in Z/nZ, nil when gcd(g, n) # 1
ModInverse(g, n) ==
    IF GCD(g % n, n) # 1 THEN NIL
    ELSE ExtInv(n, g % n, 0, 1) % n

RECURSIVE PowMod(_, _, _)
\* square and multiply, y >= 0, 0 <= x < m
PowMod(x, y, m) ==
    IF y = 0 THEN 1 % m
    ELSE LET h == PowMod(x, y \div 2, m)
             sq == (h * h) % m
         IN  IF y % 2 = 1 THEN (sq * x) % m ELSE sq

\* big.Int.Exp(x, y, m) with m > 0: x^y mod m in [0, m); for y < 0 the
\* inverse of x is raised to -y, and the result is nil when x has no inverse
Exp(x, y, m) ==
    IF y >= 0 THEN PowMod(x % m, y, m)
    ELSE LET inv == ModInverse(x, m)
         IN  IF inv = NIL THEN NIL ELSE PowMod(inv, -y, m)

\* z.Mul(x, y).Mod(z, m) with m > 0, computed on the residues so that the
\* intermediate product stays small; the value is that of (x * y) mod m
MulMod(x, y, m) == ((x % m) * (y % m)) % m

RECURSIVE Pow(_, _)
\* big.Int.Exp(x, y, nil): x^y over the integers
Pow(x, y) == IF y <= 0 THEN 1 ELSE x * Pow(x, y - 1)

RECURSIVE MulRange(_, _)
\* big.Int.MulRange(a, b): the product of a..b
MulRange(a, b) == IF a > b THEN 1 ELSE a * MulRange(a + 1, b)

RECURSIVE Bytes(_)
\* big.Int.Bytes: the big-endian bytes of |x|, without leading zeros
Bytes(x) ==
    IF Abs(x) = 0 THEN <<>>
    ELSE Append(Bytes(Abs(x) \div 256), Abs(x) % 256)

RECURSIVE Digest(_, _)
Digest(h, bs) ==
    IF bs = <<>> THEN h
    ELSE Digest((h * 31 + Head(bs) + 1) % HashSpace, Tail(bs))

RECURSIVE Concat(_)
Concat(parts) ==
    IF parts = <<>> THEN <<>> ELSE Head(parts) \o Concat(Tail(parts))

\* sha256.New(); hash.Write(x.Bytes()) for each x of xs in order; hash.Sum;
\* big.Int.SetBytes: a fixed function of the concatenated bytes
HashInts(xs) == Digest(7, Concat([i \in 1..Len(xs) |-> Bytes(xs[i])]))


(***************************************************************************)
(* polynomial.go                                                           *)
(***************************************************************************)
\* createRandomPolynomial(d, x0, m): d+1 coefficients, the first is x0 and
\* the others are the rand.Int(m) draws rs (each in [0, m))
createRandomPolynomial(d, x0, m, rs) ==
    [i \in 1..(d + 1) |-> IF i = 1 THEN x0 ELSE rs[i - 1]]

RECURSIVE Horner(_, _, _)
Horner(p, x, j) ==
    IF j = 0 THEN 0 ELSE Horner(p, x, j - 1) * x + p[Len(p) - j + 1]

\* eval taking the first coefficient as the highest
RECURSIVE HornerFirst(_, _, _)
HornerFirst(p, x, j) ==
    IF j = 0 THEN 0 ELSE HornerFirst(p, x, j - 1) * x + p[j]

evalFirstHighest(p, x) == HornerFirst(p, x, Len(p))

\* polynomial.eval: Horner's method from the highest coefficient down
eval(p, x) == Horner(p, x, Len(p))

\* sampled polynomials (coefficients from degree 0 up) and points for eval
PolySamples == {<<1, 9, 5, 7>>, <<3, 0, 2>>, <<4>>, <<0, 1>>}
EvalPoints == {0, 1, 2, 10}

(***************************************************************************)
(* Key generation                                                          *)
(***************************************************************************)
\* FixedParams.Validate: P and Q safe primes over P1 and Q1
FixedParams == [P |-> 5, P1 |-> 2, Q |-> 7, Q1 |-> 3]

\* the empty key returned together with an error
NoKey == [N |-> 0, V |-> 0, Vi |-> <<>>, L |-> 0, K |-> 0, S |-> 0,
          Delta |-> 0, Constant |-> 0]

\* NewFixedKey numbering the shares from 0, so that the first is f(0)
NewFixedKeyFromZero(bitSize, s, l, k, params, rs, r) ==
    IF bitSize < 64 THEN [err |-> "bitSize", pk |-> NoKey, shares |-> <<>>,
          d |-> 0, poly |-> <<>>]
    ELSE IF l <= 1 THEN [err |-> "l", pk |-> NoKey, shares |-> <<>>,
          d |-> 0, poly |-> <<>>]
    ELSE IF k <= 0 THEN [err |-> "k", pk |-> NoKey, shares |-> <<>>,
          d |-> 0, poly |-> <<>>]
    ELSE IF k < (l \div 2) + 1 \/ k > l
         THEN [err |-> "k", pk |-> NoKey, shares |-> <<>>,
          d |-> 0, poly |-> <<>>]
    ELSE
    LET n == params.P * params.Q
        m == params.P1 * params.Q1
        nm == n * m
        nToS == Pow(n, s)
        nToSPlusOne == Pow(n, s + 1)
        mInv == ModInverse(m, n)
        d == m * mInv
        poly == createRandomPolynomial(k - 1, d, nm, rs)
        v == (r * r) % nToSPlusOne
        delta == MulRange(1, l)
        deltaSquare == delta * delta
        constant == ModInverse(4 * deltaSquare, nToS)
        si(x) == eval(poly, x) % nm
    IN  [err |-> "",
         pk |-> [N |-> n, V |-> v,
                 Vi |-> [i \in 1..l |-> Exp(v, si(i - 1) * delta, nToSPlusOne)],
                 L |-> l, K |-> k, S |-> s,
                 Delta |-> delta, Constant |-> constant],
         shares |-> [i \in 1..l |-> [Index |-> i - 1, Si |-> si(i - 1)]],
         d |-> d, poly |-> poly]

\* NewFixedKey(bitSize, s, l, k, params); rs are the polynomial's random
\* coefficients; d and poly are its locals of those names
\* coefficients and r the accepted draw of the loop that generates V
NewFixedKey(bitSize, s, l, k, params, rs, r) ==
    IF bitSize < 64 THEN [err |-> "bitSize", pk |-> NoKey, shares |-> <<>>,
          d |-> 0, poly |-> <<>>]
    ELSE IF l <= 1 THEN [err |-> "l", pk |-> NoKey, shares |-> <<>>,
          d |-> 0, poly |-> <<>>]
    ELSE IF k <= 0 THEN [err |-> "k", pk |-> NoKey, shares |-> <<>>,
          d |-> 0, poly |-> <<>>]
    ELSE IF k < (l \div 2) + 1 \/ k > l
         THEN [err |-> "k", pk |-> NoKey, shares |-> <<>>,
          d |-> 0, poly |-> <<>>]
    ELSE
    LET n == params.P * params.Q
        m == params.P1 * params.Q1
        nm == n * m
        nToS == Pow(n, s)
        nToSPlusOne == Pow(n, s + 1)
        mInv == ModInverse(m, n)
        d == m * mInv
        poly == createRandomPolynomial(k - 1, d, nm, rs)
        v == (r * r) % nToSPlusOne
        delta == MulRange(1, l)
        deltaSquare == delta * delta
        constant == ModInverse(4 * deltaSquare, nToS)
        si(x) == eval(poly, x) % nm
    IN  [err |-> "",
         pk |-> [N |-> n, V |-> v,
                 Vi |-> [i \in 1..l |-> Exp(v, si(i) * delta, nToSPlusOne)],
                 L |-> l, K |-> k, S |-> s,
                 Delta |-> delta, Constant |-> constant],
         shares |-> [i \in 1..l |-> [Index |-> i, Si |-> si(i)]],
         d |-> d, poly |-> poly]

\* the bitSize handed to NewFixedKey
BitSize == 64

\* the largest s: the parameter and the field PubKey.S are uint8
MaxS == 255

\* big.Int.ProbablyPrime(c): exact for values below 2^64
ProbablyPrime(n) ==
    n >= 2 /\ \A f \in 2..(n - 1) : f * f > n \/ n % f # 0

\* the values rand.Prime(rand.Reader, bits) can return: the primes of
\* exactly bits bits whose two most significant bits are set; none when
\* bits < 2, where it returns an error
PrimeDraws(bits) ==
    IF bits < 2 THEN {}
    ELSE {q \in (Pow(2, bits - 1) + Pow(2, bits - 2))..(Pow(2, bits) - 1) :
            ProbablyPrime(q)}

\* GenerateSafePrimes returning 2q + 1 without testing it
GenerateSafePrimesUntested(bitLen, q) ==
    IF q = NIL THEN [ret |-> TRUE, p |-> 0, q |-> 0, err |-> "prime"]
    ELSE [ret |-> TRUE, p |-> 2 * q + 1, q |-> q, err |-> ""]

\* one pass of the loop of GenerateSafePrimes(bitLen); q is what rand.Prime
\* returned, NIL for an error; ret tells whether the function returns
GenerateSafePrimes(bitLen, q) ==
    IF q = NIL THEN [ret |-> TRUE, p |-> 0, q |-> 0, err |-> "prime"]
    ELSE LET p == 2 * q + 1
         IN  IF ProbablyPrime(p) THEN [ret |-> TRUE, p |-> p, q |-> q,
                                       err |-> ""]
             ELSE [ret |-> FALSE, p |-> 0, q |-> 0, err |-> ""]

\* the outcomes of rand.Prime inside GenerateSafePrimes(bitLen)
SafePrimeDraws(bitLen) == PrimeDraws(bitLen - 1) \cup {NIL}

\* NewKey before it is called
NoGen == [pc |-> "idle", bitSize |-> 0, s |-> 0, l |-> 0, k |-> 0,
          P |-> 0, P1 |-> 0, Q |-> 0, Q1 |-> 0, cand |-> 0]

\* the arguments of NewKey explored by the model
NewKeyInputs == [bitSize : MinKeyBits..MaxKeyBits, s : {1}, l : {2}, k : {2}]

\* sampled random draws of one key generation: rs the rand.Int(nm) draws of
\* the polynomial's coefficients (a prefix of it is used), r the accepted
\* draw of RandomInt(4*bitSize) for V (coprime to N)
KeyDraws == {[rs |-> <<209, 1, 57>>, r |-> 2], [rs |-> <<1, 100, 3>>, r |-> 3]}

\* the inputs of key generation explored by the model
KeyInputs ==
    {in \in [s : SValues, l : 2..MaxL, k : 1..MaxL, draws : KeyDraws] :
        in.k >= (in.l \div 2) + 1 /\ in.k <= in.l}

\* the parameters handed to key generation, valid or not
AnyKeyInputs ==
    [bitSize : {BitSize - 1, BitSize}, s : {0} \cup SValues, l : 0..MaxL,
     k : 0..(MaxL + 1), draws : KeyDraws]

(***************************************************************************)
(* PubKey.Cache                                                            *)
(***************************************************************************)
\* Cache writing N^s over pk.N instead of into a new value
KeyAfterCacheInPlace(key) == [key EXCEPT !.N = Pow(key.N, key.S)]

\* the public fields of *pk after pk.Cache(): it assigns pk.cached only, and
\* computes its values into new big.Ints
KeyAfterCache(key) == key

NoCache == [set |-> FALSE, BigS |-> 0, SPlusOne |-> 0, NPlusOne |-> 0,
            NMinusOne |-> 0, NToS |-> 0, NToSPlusOne |-> 0]

\* the values Cache() computes when pk.cached is nil
NewCache(key) ==
    [set |-> TRUE, BigS |-> key.S, SPlusOne |-> key.S + 1,
     NPlusOne |-> key.N + 1, NMinusOne |-> key.N - 1,
     NToS |-> Pow(key.N, key.S), NToSPlusOne |-> Pow(key.N, key.S + 1)]

\* pk.Cache(): the cached structure, initialised on first use
Cache(key, c) == IF c.set THEN c ELSE NewCache(key)

\* a goroutine calling pk.Cache(): pc is its position (idle, then "check"
\* before the test of pk.cached, "init" inside the if, "ret" before the
\* return, "done"), wrote whether it assigned pk.cached, raced whether its
\* call overlaps one that assigned pk.cached, got the structure it obtained
NoCallers ==
    [t \in 1..NCallers |->
        [pc |-> "idle", wrote |-> FALSE, raced |-> FALSE, got |-> NoCache]]

\* a cached structure whose pointer is seen before its fields: the fields
\* read as nil
Unpopulated == [NoCache EXCEPT !.set = TRUE]

\* the structures the return of Cache() can hand to caller t: the one
\* stored; or, pk.cached being read with no synchronisation, one stored by
\* an overlapping call of another goroutine and seen before its fields
Observable(c, caller) ==
    {c} \cup (IF caller.raced /\ c.set THEN {Unpopulated} ELSE {})


(***************************************************************************)
(* pub_key.go: homomorphic operations                                      *)
(***************************************************************************)
\* a result (value, error); val is nil when err is not ""
Ok(v) == [err |-> "", val |-> v]
Fail(e) == [err |-> e, val |-> NIL]

\* the values rand.Int(rand.Reader, N^(s+1)-1) + 1 can take
InStarRange(key, r) == r >= 1 /\ r <= Pow(key.N, key.S + 1) - 1

\* EncryptFixed raising r to N, as for s = 1, instead of N^s
EncryptFixedToN(key, msg, r) ==
    LET nPlusOne == key.N + 1
        nToSPlusOne == Pow(key.N, key.S + 1)
        m == msg % nToSPlusOne
        nPlusOneToM == Exp(nPlusOne, m, nToSPlusOne)
        rToN == Exp(r, key.N, nToSPlusOne)
    IN  (nPlusOneToM * rToN) % nToSPlusOne

\* PubKey.EncryptFixed(msg, r); it never returns an error
EncryptFixed(key, msg, r) ==
    LET nPlusOne == key.N + 1
        nToS == Pow(key.N, key.S)
        nToSPlusOne == Pow(key.N, key.S + 1)
        m == msg % nToSPlusOne
        nPlusOneToM == Exp(nPlusOne, m, nToSPlusOne)
        rToNToS == Exp(r, nToS, nToSPlusOne)
    IN  (nPlusOneToM * rToNToS) % nToSPlusOne

RECURSIVE AddLoopUnreduced(_, _, _, _)
\* the loop of Add without the reduction modulo N^(s+1)
AddLoopUnreduced(cList, i, sum, nToSPlusOne) ==
    IF i > Len(cList) THEN Ok(sum)
    ELSE IF cList[i] >= nToSPlusOne \/ cList[i] < 1 THEN Fail("range")
    ELSE AddLoopUnreduced(cList, i + 1, sum * cList[i], nToSPlusOne)

RECURSIVE AddLoop(_, _, _, _)
\* the loop of PubKey.Add from position i on, sum being the running product
AddLoop(cList, i, sum, nToSPlusOne) ==
    IF i > Len(cList) THEN Ok(sum)
    ELSE IF cList[i] >= nToSPlusOne \/ cList[i] < 1 THEN Fail("range")
    ELSE AddLoop(cList, i + 1, MulMod(sum, cList[i], nToSPlusOne), nToSPlusOne)

\* PubKey.Add(cList...)
Add(key, cList) ==
    IF Len(cList) = 0 THEN Fail("empty")
    ELSE AddLoop(cList, 2, cList[1], Pow(key.N, key.S + 1))

\* PubKey.ReRand(c, r)
ReRand(key, c, r) == Add(key, <<c, EncryptFixed(key, 0, r)>>)

\* MultiplyFixed returning the bare c^alpha, without rerandomizing
MultiplyFixedBare(key, c, alpha, gamma) ==
    LET nToSPlusOne == Pow(key.N, key.S + 1)
    IN  IF c >= nToSPlusOne \/ c < 0 THEN Fail("range")
        ELSE Ok(Exp(c, alpha, nToSPlusOne))

\* PubKey.MultiplyFixed(c, alpha, gamma)
MultiplyFixed(key, c, alpha, gamma) ==
    LET nToSPlusOne == Pow(key.N, key.S + 1)
    IN  IF c >= nToSPlusOne \/ c < 0 THEN Fail("range")
        ELSE ReRand(key, Exp(c, alpha, nToSPlusOne), gamma)

\* PubKey.Multiply(c, alpha) with gamma the draw of RandomModNToSPlusOneStar
Multiply(key, c, alpha, gamma) ==
    IF gamma = NIL THEN Fail("random") ELSE MultiplyFixed(key, c, alpha, gamma)

(***************************************************************************)
(* threshold_share.go, pub_key.go: threshold decryption                    *)
(***************************************************************************)
\* PartialDecryption accepting c = N^(s+1)
PartialDecryptionInclusive(key, share, c) ==
    LET nToSPlusOne == Pow(key.N, key.S + 1)
        DeltaSi2 == 2 * key.Delta * share.Si
    IN  IF c > nToSPlusOne \/ c < 0 THEN Fail("range")
        ELSE Ok(Exp(c, DeltaSi2, nToSPlusOne))

\* the fields of *ts after ts.PartialDecryption(c) or ts.Decrypt(c): the
\* exponents are computed into new big.Ints
ShareAfterDecryption(share) == share

\* KeyShare.PartialDecryption(c)
PartialDecryption(key, share, c) ==
    LET nToSPlusOne == Pow(key.N, key.S + 1)
        DeltaSi2 == 2 * key.Delta * share.Si
    IN  IF c >= nToSPlusOne \/ c < 0 THEN Fail("range")
        ELSE Ok(Exp(c, DeltaSi2, nToSPlusOne))

\* the first index j < i with shares[j].Index = shares[i].Index, or 0
Repeated(shares, i) ==
    LET js == {j \in 1..(i - 1) : shares[j].Index = shares[i].Index}
    IN  IF js = {} THEN 0 ELSE CHOOSE j \in js : TRUE

RECURSIVE LambdaNumOwn(_, _, _)
\* num of CombineShares multiplying in the share's own index as well
LambdaNumOwn(shares, i, j) ==
    IF j = 0 THEN 1 ELSE LambdaNumOwn(shares, i, j - 1) * shares[j].Index

RECURSIVE LambdaNum(_, _, _)
\* num of CombineShares: Delta times the other shares' indices
LambdaNum(shares, i, j) ==
    IF j = 0 THEN 1
    ELSE LambdaNum(shares, i, j - 1) *
         (IF shares[j].Index # shares[i].Index THEN shares[j].Index ELSE 1)

RECURSIVE LambdaDen(_, _, _)
\* den of CombineShares: the product of (Index' - Index) over the others
LambdaDen(shares, i, j) ==
    IF j = 0 THEN 1
    ELSE LambdaDen(shares, i, j - 1) *
         (IF shares[j].Index # shares[i].Index
          THEN shares[j].Index - shares[i].Index ELSE 1)

\* lambda2 without its factor 2
Lambda2Single(key, shares, i) ==
    Quo(key.Delta * LambdaNum(shares, i, Len(shares)),
        LambdaDen(shares, i, Len(shares)))

\* lambda2 without the factor Delta
Lambda2NoDelta(key, shares, i) ==
    Quo(LambdaNum(shares, i, Len(shares)) * 2,
        LambdaDen(shares, i, Len(shares)))

\* lambda2 of CombineShares for the share at position i
Lambda2(key, shares, i) ==
    Quo(key.Delta * LambdaNum(shares, i, Len(shares)) * 2,
        LambdaDen(shares, i, Len(shares)))

RECURSIVE CombineLoop(_, _, _, _)
\* the product loop of CombineShares; nil (a panic on use) when Exp is nil
CombineLoop(key, shares, i, nToSPlusOne) ==
    IF i = 0 THEN Ok(1)
    ELSE LET prev == CombineLoop(key, shares, i - 1, nToSPlusOne)
             CiToLambda2 == Exp(shares[i].Ci, Lambda2(key, shares, i), nToSPlusOne)
         IN  IF prev.err # "" THEN prev
             ELSE IF CiToLambda2 = NIL THEN Fail("panic")
             ELSE Ok((prev.val * CiToLambda2) % nToSPlusOne)

\* CombineShares without its check for repeated indexes
CombineSharesUnchecked(key, all) ==
    LET n == key.N
        nToSPlusOne == Pow(key.N, key.S + 1)
        shares == SubSeq(all, 1, key.K)
    IN  IF Len(all) < key.K THEN Fail("shares")
        ELSE LET cPrime == CombineLoop(key, shares, Len(shares), nToSPlusOne)
                 l == (cPrime.val - 1) \div n
             IN  IF cPrime.err # "" THEN cPrime
                 ELSE Ok((key.Constant * l) % n)

\* CombineShares using every share it is given, not the first k
CombineSharesAll(key, all) ==
    LET n == key.N
        nToSPlusOne == Pow(key.N, key.S + 1)
        shares == all
    IN  IF Len(all) < key.K THEN Fail("shares")
        ELSE IF \E i \in 1..Len(shares) : Repeated(shares, i) # 0
             THEN Fail("repeated")
        ELSE LET cPrime == CombineLoop(key, shares, Len(shares), nToSPlusOne)
                 l == (cPrime.val - 1) \div n
             IN  IF cPrime.err # "" THEN cPrime
                 ELSE Ok((key.Constant * l) % n)

\* PubKey.CombineShares(shares...)
CombineShares(key, all) ==
    LET n == key.N
        nToSPlusOne == Pow(key.N, key.S + 1)
        shares == SubSeq(all, 1, key.K)
    IN  IF Len(all) < key.K THEN Fail("shares")
        ELSE IF \E i \in 1..Len(shares) : Repeated(shares, i) # 0
             THEN Fail("repeated")
        ELSE LET cPrime == CombineLoop(key, shares, Len(shares), nToSPlusOne)
                 l == (cPrime.val - 1) \div n
             IN  IF cPrime.err # "" THEN cPrime
                 ELSE Ok((key.Constant * l) % n)


(***************************************************************************)
(* pub_key.go, threshold_share.go: provers                                 *)
(***************************************************************************)
\* a proof of any of the three kinds; the fields a kind lacks are 0
Proof(b, w, z, a, y, cAlpha, v, vi, e) ==
    [B |-> b, W |-> w, Z |-> z, A |-> a, Y |-> y, CAlpha |-> cAlpha,
     V |-> v, Vi |-> vi, E |-> e]

NoProof == Proof(0, 0, 0, 0, 0, 0, 0, 0, 0)

\* a result (proof, error)
OkProof(p) == [err |-> "", zk |-> p]
FailProof(e) == [err |-> e, zk |-> NoProof]

\* the values RandomModN (rand.Int(rand.Reader, pk.N)) can take
InModNRange(key, x) == x >= 0 /\ x < key.N

\* PubKey.EncryptProof(message, c, s); x and u are its two random draws
EncryptProof(key, message, c, s, x, u) ==
    LET nToSPlusOne == Pow(key.N, key.S + 1)
        nPlusOne == key.N + 1
        nToS == Pow(key.N, key.S)
        alpha == message
        nPlusOneToX == Exp(nPlusOne, x, nToSPlusOne)
        uToN == Exp(u, nToS, nToSPlusOne)
        b == MulMod(nPlusOneToX, uToN, nToSPlusOne)
        e == HashInts(<<c, b>>)
        dummy == x + e * alpha
        w == dummy % nToS
        t == dummy \div nToS
        sToE == Exp(s, e, nToSPlusOne)
        nPlusOneToT == Exp(nPlusOne, t, nToSPlusOne)
        z == MulMod(MulMod(u, sToE, nToSPlusOne), nPlusOneToT, nToSPlusOne)
    IN  OkProof(Proof(b, w, z, 0, 0, 0, 0, 0, 0))

\* PubKey.MultiplyProof(ca, cAlpha, d, alpha, s, gamma); dNil tells that d
\* is a nil pointer; x, u and v are the three random draws
MultiplyProof(key, ca, cAlpha, d, dNil, alpha, s, gamma, x, u, v) ==
    LET nToSPlusOne == Pow(key.N, key.S + 1)
        nPlusOne == key.N + 1
        nToS == Pow(key.N, key.S)
        caToX == Exp(ca, x, nToSPlusOne)
        vToNToS == Exp(v, nToS, nToSPlusOne)
        a == MulMod(caToX, vToNToS, nToSPlusOne)
        nPlusOneToX == Exp(nPlusOne, x, nToSPlusOne)
        uToNToS == Exp(u, nToS, nToSPlusOne)
        b == MulMod(nPlusOneToX, uToNToS, nToSPlusOne)
        e == HashInts(<<ca, cAlpha, d, a, b>>)
        dummy == x + e * alpha
        w == dummy % nToS
        t == dummy \div nToS
        sToE == Exp(s, e, nToSPlusOne)
        nPlusOneToT == Exp(nPlusOne, t, nToSPlusOne)
        z == MulMod(MulMod(u, sToE, nToSPlusOne), nPlusOneToT, nToSPlusOne)
        caToT == Exp(ca, t, nToSPlusOne)
        gammaToE == Exp(gamma, e, nToSPlusOne)
        y == MulMod(MulMod(v, caToT, nToSPlusOne), gammaToE, nToSPlusOne)
    IN  IF ca >= nToSPlusOne \/ ca < 0 THEN FailProof("range")
        ELSE IF cAlpha >= nToSPlusOne \/ cAlpha < 0 THEN FailProof("range")
        ELSE IF dNil THEN FailProof("panic")
        ELSE IF caToT = NIL THEN FailProof("panic")
        ELSE OkProof(Proof(b, w, z, a, y, cAlpha, 0, 0, 0))

\* PubKey.MultiplyWithProof(encrypted, constant); gamma and s are the draws
\* of RandomModNToSPlusOneStar, x, u and v those of MultiplyProof.  The
\* error of Multiply is overwritten by the next assignment to err.
MultiplyWithProof(key, encrypted, constant, gamma, s, x, u, v) ==
    LET mul == Multiply(key, encrypted, constant, gamma)
        cAlpha == EncryptFixed(key, constant, s)
        proof == MultiplyProof(key, encrypted, cAlpha, mul.val, mul.err # "",
                               constant, s, gamma, x, u, v)
    IN  [err |-> proof.err, val |-> mul.val, nil |-> mul.err # "",
         zk |-> proof.zk]

\* the number of bits of the random r of DecryptProof
NumBits(key) == ((key.S + 2) % 256) * key.K + 32 * 8

\* DecryptProof reading the first verification value for every share
DecryptProofFirstVi(key, share, c, ci, r) ==
    LET nToSPlusOne == Pow(key.N, key.S + 1)
        cTo4 == Exp(c, 4, nToSPlusOne)
        v == key.V
        vi == key.Vi[1]
        a == Exp(cTo4, r, nToSPlusOne)
        b == Exp(v, r, nToSPlusOne)
        ciTo2 == Exp(ci, 2, nToSPlusOne)
        e == HashInts(<<a, b, cTo4, ciTo2>>)
        z == share.Si * e * key.Delta + r
    IN  OkProof(Proof(0, 0, z, 0, 0, 0, v, vi, e))

\* KeyShare.DecryptProof(c, ci); r is the draw of RandomInt(numBits)
DecryptProof(key, share, c, ci, r) ==
    LET nToSPlusOne == Pow(key.N, key.S + 1)
        cTo4 == Exp(c, 4, nToSPlusOne)
        v == key.V
        vi == key.Vi[share.Index]
        a == Exp(cTo4, r, nToSPlusOne)
        b == Exp(v, r, nToSPlusOne)
        ciTo2 == Exp(ci, 2, nToSPlusOne)
        e == HashInts(<<a, b, cTo4, ciTo2>>)
        z == share.Si * e * key.Delta + r
    IN  OkProof(Proof(0, 0, z, 0, 0, 0, v, vi, e))

\* KeyShare.Decrypt(c): the decryption share and its proof
Decrypt(key, share, c, r) ==
    LET nToSPlusOne == Pow(key.N, key.S + 1)
        ci == PartialDecryption(key, share, c)
    IN  IF c >= nToSPlusOne \/ c < 0
        THEN [err |-> "range", ds |-> [Index |-> 0, Ci |-> 0], zk |-> NoProof]
        ELSE [err |-> "", ds |-> [Index |-> share.Index, Ci |-> ci.val],
              zk |-> DecryptProof(key, share, c, ci.val, r).zk]

(***************************************************************************)
(* zk_proof.go: verifiers.  The result is "" (nil), "zkproof failed" or    *)
(* "panic" (a nil *big.Int is dereferenced).                               *)
(***************************************************************************)
\* EncryptZK.Verify(pk, c)
VerifyEncrypt(key, zk, c) ==
    LET nPlusOne == key.N + 1
        nToSPlusOne == Pow(key.N, key.S + 1)
        nToS == Pow(key.N, key.S)
        e == HashInts(<<c, zk.B>>)
        nPlusOneToW == Exp(nPlusOne, zk.W, nToSPlusOne)
        zToN == Exp(zk.Z, nToS, nToSPlusOne)
        left == MulMod(nPlusOneToW, zToN, nToSPlusOne)
        cToE == Exp(c, e, nToSPlusOne)
        right == MulMod(zk.B, cToE, nToSPlusOne)
    IN  IF left # right THEN "zkproof failed" ELSE ""

\* MulZK.Verify(pk, d, ca)
VerifyMul(key, zk, d, ca) ==
    LET nPlusOne == key.N + 1
        nToSPlusOne == Pow(key.N, key.S + 1)
        nToS == Pow(key.N, key.S)
        e == HashInts(<<ca, zk.CAlpha, d, zk.A, zk.B>>)
        nPlusOneToW == Exp(nPlusOne, zk.W, nToSPlusOne)
        zToNToS == Exp(zk.Z, nToS, nToSPlusOne)
        zk1 == MulMod(nPlusOneToW, zToNToS, nToSPlusOne)
        cToE == Exp(zk.CAlpha, e, nToSPlusOne)
        zk2 == MulMod(cToE, zk.B, nToSPlusOne)
        caToW == Exp(ca, zk.W, nToSPlusOne)
        yToNToS == Exp(zk.Y, nToS, nToSPlusOne)
        zk3 == MulMod(caToW, yToNToS, nToSPlusOne)
        dToE == Exp(d, e, nToSPlusOne)
        zk4 == MulMod(dToE, zk.A, nToSPlusOne)
    IN  IF zk1 # zk2 THEN "zkproof failed"
        ELSE IF caToW = NIL THEN "panic"
        ELSE IF zk3 # zk4 THEN "zkproof failed"
        ELSE ""

\* DecryptShareZK.Verify(pk, c, ds)
VerifyDecryptShare(key, zk, c, ds) ==
    LET nToSPlusOne == Pow(key.N, key.S + 1)
        cTo4 == Exp(c, 4, nToSPlusOne)
        cTo4z == Exp(cTo4, zk.Z, nToSPlusOne)
        ciTo2 == Exp(ds.Ci, 2, nToSPlusOne)
        minusE == -zk.E
        minusTwoE == minusE * 2
        ciToMinus2e == Exp(ds.Ci, minusTwoE, nToSPlusOne)
        a == MulMod(cTo4z, ciToMinus2e, nToSPlusOne)
        vToZ == Exp(zk.V, zk.Z, nToSPlusOne)
        viToMinusE == Exp(zk.Vi, minusE, nToSPlusOne)
        b == MulMod(vToZ, viToMinusE, nToSPlusOne)
        e == HashInts(<<a, b, cTo4, ciTo2>>)
    IN  IF cTo4z = NIL \/ ciToMinus2e = NIL THEN "panic"
        ELSE IF vToZ = NIL \/ viToMinusE = NIL THEN "panic"
        ELSE IF e # zk.E THEN "zkproof failed"
        ELSE ""


(***************************************************************************)
(* The state machine: a caller holding one generated key                   *)
(***************************************************************************)
\* the plaintexts the caller encrypts: small ones, 12 and 25, 2^bitlen(N)
\* (not below N) and (-12) mod N^(s+1)
Msgs(key) == (0..MaxMsg) \cup {12, 25, 64, Pow(key.N, key.S + 1) - 12}

\* the plaintext constants the caller multiplies by
Alphas(key) == (0..MaxMsg) \cup {25, 64}

\* sampled draws of RandomModNToSPlusOneStar: two units and a multiple of P
StarSample == {2, 3, 5}

Stars(key) == {r \in StarSample : InStarRange(key, r)}

IsUnit(key, r) == GCD(r % key.N, key.N) = 1

\* a ciphertext with what the caller knows of it: the call that returned
\* it (by), the plaintexts ms and the constant alpha it was made from, and
\* whether every random draw that went into it is coprime to N (units)
Known(c, by, ms, alpha, units) ==
    [set |-> TRUE, c |-> c, by |-> by, ms |-> ms, alpha |-> alpha,
     units |-> units]

NoAcc == [Known(0, "", <<>>, 0, FALSE) EXCEPT !.set = FALSE]

NoDec == [set |-> FALSE, of |-> NoAcc, shares |-> <<>>]

NoPrf == [kind |-> "none", zk |-> NoProof, c |-> 0, d |-> 0, ca |-> 0,
          ds |-> [Index |-> 0, Ci |-> 0], err |-> ""]

\* the record of a call: what names the value a verification was given in
\* place of the prover's
Call(name, args, res) ==
    [name |-> name, what |-> "", args |-> args, err |-> res.err,
     val |-> res.val]

Init ==
    /\ \E in \in KeyInputs :
         LET key == NewFixedKey(BitSize, in.s, in.l, in.k, FixedParams,
                                SubSeq(in.draws.rs, 1, in.k - 1), in.draws.r)
         IN  /\ key.err = ""
             /\ pk = key.pk
             /\ keyShares = key.shares
    /\ cached = NoCache
    /\ ct = <<>>
    /\ acc = NoAcc
    /\ dec = NoDec
    /\ prf = NoPrf
    /\ op = Call("NewFixedKey", <<>>, Ok(0))
    /\ callers = NoCallers
    /\ gen = NoGen

\* the state before any key is generated
InitKey ==
    /\ pk = NoKey
    /\ keyShares = <<>>
    /\ cached = NoCache
    /\ ct = <<>>
    /\ acc = NoAcc
    /\ dec = NoDec
    /\ prf = NoPrf
    /\ op = Call("", <<>>, Ok(0))
    /\ callers = NoCallers
    /\ gen = NoGen

\* NewFixedKey(bitSize, s, l, k, params) on any parameters
GenerateKey ==
    /\ op.name = ""
    /\ \E in \in AnyKeyInputs :
         LET key == NewFixedKey(in.bitSize, in.s, in.l, in.k, FixedParams,
                                in.draws.rs, in.draws.r)
         IN  /\ pk' = key.pk
             /\ keyShares' = key.shares
             /\ op' = Call("NewFixedKey", <<in>>,
                           [err |-> key.err,
                            val |-> [d |-> key.d, poly |-> key.poly]])
    /\ UNCHANGED <<cached, ct, acc, dec, prf, callers, gen>>

\* the elements of a set of indices in increasing order
RECURSIVE Ascending(_)
Ascending(S) ==
    IF S = {} THEN <<>>
    ELSE LET least == CHOOSE x \in S : \A y \in S : x <= y
         IN  <<least>> \o Ascending(S \ {least})

\* the lists of k decryption shares with distinct indices of 1..l that pass
\* the checks of CombineShares, for the l and k key generation accepts
IndexLists ==
    {[l |-> l, k |-> Cardinality(S), shares |-> [j \in 1..Cardinality(S) |->
                          [Index |-> Ascending(S)[j], Ci |-> 1]]] :
        l \in 2..MaxLagrangeL, S \in SUBSET (1..MaxLagrangeL)}

\* the computation of lambda2 inside CombineShares for one share of a list
LagrangeCoefficient ==
    /\ op.name = "" /\ gen.pc = "idle"
    /\ \E in \in IndexLists :
         /\ in.k >= (in.l \div 2) + 1 /\ in.k <= in.l
         /\ \A j \in 1..in.k : in.shares[j].Index <= in.l
         /\ \E i \in 1..in.k :
              LET key == [NoKey EXCEPT !.L = in.l, !.K = in.k,
                                       !.Delta = MulRange(1, in.l)]
              IN  op' = Call("lambda2", <<in.l, in.shares, i>>,
                             Ok(Lambda2(key, in.shares, i)))
    /\ UNCHANGED <<pk, keyShares, cached, ct, acc, dec, prf, callers, gen>>

\* the computation of numBits inside DecryptProof for a key share whose
\* fields S and K are s and k
NumBitsOf ==
    /\ op.name = "" /\ gen.pc = "idle"
    /\ \E s \in 1..MaxS, k \in 2..MaxL :
         op' = Call("numBits", <<s, k>>,
                    Ok(NumBits([NoKey EXCEPT !.S = s, !.K = k])))
    /\ UNCHANGED <<pk, keyShares, cached, ct, acc, dec, prf, callers, gen>>

\* p.eval(x) on a sampled polynomial
EvalPolynomial ==
    /\ op.name = "" /\ gen.pc = "idle"
    /\ \E p \in PolySamples, x \in EvalPoints :
         op' = Call("eval", <<p, x>>, Ok(eval(p, x)))
    /\ UNCHANGED <<pk, keyShares, cached, ct, acc, dec, prf, callers, gen>>

\* NewKey(bitSize, s, l, k) is called
NewKeyCall ==
    /\ op.name = "" /\ gen.pc = "idle"
    /\ \E in \in NewKeyInputs :
         gen' = [NoGen EXCEPT !.pc = "p", !.bitSize = in.bitSize, !.s = in.s,
                              !.l = in.l, !.k = in.k]
    /\ UNCHANGED <<pk, keyShares, cached, ct, acc, dec, prf, op, callers>>

\* one pass of the loop of GenerateSafePrimes inside NewKey, for the first
\* pair (pc = "p") or the second (pc = "q"); cand keeps the last draw that
\* was not accepted.  With the second pair accepted, NewKey returns what
\* NewFixedKey returns.
SafePrimeStep ==
    /\ gen.pc \in {"p", "q"}
    /\ LET pPrimeSize == (gen.bitSize + 1) \div 2
           qPrimeSize == gen.bitSize - pPrimeSize
           bitLen == IF gen.pc = "p" THEN pPrimeSize ELSE qPrimeSize
       IN  \E q \in SafePrimeDraws(bitLen), draws \in KeyDraws :
             LET res == GenerateSafePrimes(bitLen, q)
                 params == [P |-> gen.P, P1 |-> gen.P1, Q |-> res.p,
                            Q1 |-> res.q]
                 key == NewFixedKey(gen.bitSize, gen.s, gen.l, gen.k, params,
                                    draws.rs, draws.r)
                 args == <<gen.bitSize, gen.s, gen.l, gen.k>>
             IN  IF ~res.ret
                 THEN /\ gen' = [gen EXCEPT !.cand = q]
                      /\ UNCHANGED <<pk, keyShares, op>>
                 ELSE IF res.err # ""
                 THEN /\ gen' = [gen EXCEPT !.pc = "done"]
                      /\ op' = Call("NewKey", args, Fail(res.err))
                      /\ UNCHANGED <<pk, keyShares>>
                 ELSE IF gen.pc = "p"
                 THEN /\ gen' = [gen EXCEPT !.pc = "q", !.P = res.p,
                                            !.P1 = res.q]
                      /\ UNCHANGED <<pk, keyShares, op>>
                 ELSE IF gen.P # res.p /\ gen.P # res.q /\ res.p # gen.P1
                 THEN /\ gen' = [gen EXCEPT !.pc = "done", !.Q = res.p,
                                            !.Q1 = res.q]
                      /\ pk' = key.pk
                      /\ keyShares' = key.shares
                      /\ op' = Call("NewKey", args,
                                    [err |-> key.err, val |-> 0])
                 ELSE /\ gen' = [gen EXCEPT !.cand = q]
                      /\ UNCHANGED <<pk, keyShares, op>>
    /\ UNCHANGED <<cached, ct, acc, dec, prf, callers>>

\* goroutine t enters pk.Cache()
CacheCall(t) ==
    /\ callers[t].pc = "idle" /\ op.name = "NewFixedKey"
    /\ callers' = [callers EXCEPT
          ![t].pc = "check",
          ![t].raced = \E u \in 1..NCallers :
                          u # t /\ callers[u].wrote /\ callers[u].pc # "done"]
    /\ UNCHANGED <<pk, keyShares, cached, ct, acc, dec, prf, op, gen>>

\* goroutine t tests pk.cached == nil
CacheCheck(t) ==
    /\ callers[t].pc = "check"
    /\ callers' = [callers EXCEPT
          ![t].pc = IF cached.set THEN "ret" ELSE "init"]
    /\ UNCHANGED <<pk, keyShares, cached, ct, acc, dec, prf, op, gen>>

\* goroutine t computes the values and assigns pk.cached
CacheInit(t) ==
    /\ callers[t].pc = "init"
    /\ cached' = NewCache(pk)
    /\ pk' = KeyAfterCache(pk)
    /\ callers' = [u \in 1..NCallers |->
          IF u = t THEN [callers[u] EXCEPT !.pc = "ret", !.wrote = TRUE]
          ELSE IF callers[u].pc \in {"check", "init", "ret"}
               THEN [callers[u] EXCEPT !.raced = TRUE]
          ELSE callers[u]]
    /\ UNCHANGED <<keyShares, ct, acc, dec, prf, op, gen>>

\* goroutine t returns pk.cached
CacheReturn(t) ==
    /\ callers[t].pc = "ret"
    /\ \E c \in Observable(cached, callers[t]) :
         callers' = [callers EXCEPT ![t].pc = "done", ![t].got = c]
    /\ UNCHANGED <<pk, keyShares, cached, ct, acc, dec, prf, op, gen>>

\* pk.Encrypt(m): r is drawn, then EncryptFixed(m, r)
Encrypt ==
    /\ Len(ct) < 2 /\ ~acc.set /\ ~dec.set /\ prf.kind = "none"
    /\ op.name \in {"NewFixedKey", "Encrypt"} /\ callers = NoCallers
    /\ \E m \in Msgs(pk), r \in Stars(pk) :
         LET c == EncryptFixed(pk, m, r)
         IN  /\ ct' = Append(ct, [c |-> c, m |-> m, r |-> r])
             /\ op' = Call("Encrypt", <<m, r>>, Ok(c))
    /\ cached' = Cache(pk, cached)
    /\ pk' = KeyAfterCache(pk)
    /\ callers' = callers
    /\ gen' = gen
    /\ UNCHANGED <<keyShares, acc, dec, prf>>

\* the ways the caller lists its ciphertexts in a call of Add
AddShapes == {<<1>>, <<1, 1>>, <<1, 2>>, <<2, 1>>, <<1, 2, 1>>}

\* pk.Add(...) on ciphertexts returned by Encrypt
AddCiphertexts ==
    /\ Len(ct) > 0 /\ ~acc.set /\ ~dec.set /\ prf.kind = "none"
    /\ \E shape \in AddShapes :
         /\ \A i \in 1..Len(shape) : shape[i] <= Len(ct)
         /\ LET cList == [i \in 1..Len(shape) |-> ct[shape[i]].c]
                res == Add(pk, cList)
            IN  /\ op' = Call("AddCiphertexts", <<>>, res)
                /\ IF res.err = ""
                   THEN /\ acc' = Known(res.val, "Add",
                                        [i \in 1..Len(shape) |-> ct[shape[i]].m], 0,
                                        \A i \in 1..Len(ct) : IsUnit(pk, ct[i].r))
                        /\ ct' = <<>>
                   ELSE UNCHANGED <<acc, ct>>
    /\ cached' = Cache(pk, cached)
    /\ pk' = KeyAfterCache(pk)
    /\ callers' = callers
    /\ gen' = gen
    /\ UNCHANGED <<keyShares, dec, prf>>

\* pk.Multiply(c, alpha) on a ciphertext returned by Encrypt
MultiplyCiphertext ==
    /\ Len(ct) = 1 /\ ~acc.set /\ ~dec.set /\ prf.kind = "none"
    /\ \E alpha \in Alphas(pk), gamma \in Stars(pk) :
         LET res == Multiply(pk, ct[1].c, alpha, gamma)
         IN  /\ op' = Call("Multiply", <<ct[1].c, alpha, gamma>>, res)
             /\ IF res.err = ""
                THEN /\ acc' = Known(res.val, "Multiply", <<ct[1].m>>, alpha,
                                     IsUnit(pk, ct[1].r) /\ IsUnit(pk, gamma))
                     /\ ct' = <<>>
                ELSE UNCHANGED <<acc, ct>>
    /\ cached' = Cache(pk, cached)
    /\ pk' = KeyAfterCache(pk)
    /\ callers' = callers
    /\ gen' = gen
    /\ UNCHANGED <<keyShares, dec, prf>>

\* the ciphertext the share holders are asked to decrypt
Target ==
    IF acc.set THEN acc
    ELSE Known(ct[1].c, "Encrypt", <<ct[1].m>>, 0, IsUnit(pk, ct[1].r))

\* every share holder calls PartialDecryption on the current ciphertext
PartialDecrypt ==
    /\ acc.set \/ Len(ct) = 1
    /\ ~dec.set /\ prf.kind = "none"
    /\ dec' = [set |-> TRUE, of |-> Target,
               shares |-> [i \in 1..Len(keyShares) |->
                   [Index |-> keyShares[i].Index,
                    Ci |-> PartialDecryption(pk, keyShares[i], Target.c).val]]]
    /\ op' = Call("PartialDecryption", <<Target.c>>, Ok(0))
    /\ keyShares' = [i \in 1..Len(keyShares) |->
                        ShareAfterDecryption(keyShares[i])]
    /\ cached' = Cache(pk, cached)
    /\ pk' = KeyAfterCache(pk)
    /\ callers' = callers
    /\ gen' = gen
    /\ UNCHANGED <<ct, acc, prf>>

\* the lists of values a caller may hand to Add, of at most MaxAdd values
AddValueSample(key) ==
    LET nToSPlusOne == Pow(key.N, key.S + 1)
    IN  {-1, 0, 1, 2, nToSPlusOne - 1, nToSPlusOne, nToSPlusOne + 1}

AddLists(key) ==
    UNION {[1..n -> AddValueSample(key)] : n \in 0..MaxAdd}

\* the randomness a caller hands to EncryptFixed: the ends of the range
\* [1, N^(s+1) - 1] and N
FixedRands(key) == {1, key.N, Pow(key.N, key.S + 1) - 1}

\* pk.EncryptFixed(m, r) on randomness chosen by the caller
EncryptFixedValue ==
    /\ Len(ct) = 0 /\ ~acc.set /\ ~dec.set /\ prf.kind = "none"
    /\ op.name = "NewFixedKey" /\ callers = NoCallers
    /\ \E m \in Msgs(pk), r \in FixedRands(pk) :
         op' = Call("EncryptFixed", <<m, r>>, Ok(EncryptFixed(pk, m, r)))
    /\ cached' = Cache(pk, cached)
    /\ pk' = KeyAfterCache(pk)
    /\ callers' = callers
    /\ gen' = gen
    /\ UNCHANGED <<keyShares, ct, acc, dec, prf>>

\* pk.Add(...) on any list of values
AddValues ==
    /\ Len(ct) = 0 /\ ~acc.set /\ ~dec.set /\ prf.kind = "none"
    /\ op.name = "NewFixedKey" /\ callers = NoCallers
    /\ \E cList \in AddLists(pk) : op' = Call("Add", cList, Add(pk, cList))
    /\ cached' = Cache(pk, cached)
    /\ pk' = KeyAfterCache(pk)
    /\ callers' = callers
    /\ gen' = gen
    /\ UNCHANGED <<keyShares, ct, acc, dec, prf>>

\* the sequences of n distinct positions of 1..l
RECURSIVE Arrangements(_, _)
Arrangements(l, n) ==
    IF n = 0 THEN {<<>>}
    ELSE {Append(a, i) : a \in Arrangements(l, n - 1), i \in 1..l} \cap
         {a \in [1..n -> 1..l] : \A i, j \in 1..n : i # j => a[i] # a[j]}

\* pk.CombineShares on k of the decryption shares, in any order
Combine ==
    /\ dec.set /\ op.name = "PartialDecryption"
    /\ \E sel \in Arrangements(Len(dec.shares), pk.K) :
         LET shares == [i \in 1..Len(sel) |-> dec.shares[sel[i]]]
         IN  op' = Call("CombineShares", sel, CombineShares(pk, shares))
    /\ cached' = Cache(pk, cached)
    /\ pk' = KeyAfterCache(pk)
    /\ callers' = callers
    /\ gen' = gen
    /\ UNCHANGED <<keyShares, ct, acc, dec, prf>>

\* the plaintexts whose decryption shares are handed to CombineShares in
\* any number and order: one below N and one not
ShareMsgs == {12, 64}

\* the decryption shares of c by every key share, in the order of the shares
AllShares(c) ==
    [i \in 1..Len(keyShares) |->
        [Index |-> keyShares[i].Index,
         Ci |-> PartialDecryption(pk, keyShares[i], c).val]]

\* the shares a caller may hand to CombineShares: those of c and two whose
\* value is not in [0, N^(s+1))
SharePool(c) ==
    {AllShares(c)[i] : i \in 1..Len(keyShares)} \cup
    {[Index |-> 1, Ci |-> v] : v \in {-1, Pow(pk.N, pk.S + 1) + 2}}

\* the lists of at most k + 1 shares of the pool
ShareLists(c) ==
    UNION {[1..n -> SharePool(c)] : n \in 0..(pk.K + 1)}

\* pk.CombineShares(...) on any list of decryption shares of Encrypt(m)
CombineAny ==
    /\ Len(ct) = 0 /\ ~acc.set /\ ~dec.set /\ prf.kind = "none"
    /\ op.name = "NewFixedKey" /\ callers = NoCallers
    /\ \E m \in ShareMsgs :
         LET c == EncryptFixed(pk, m, 2)
         IN  \E shares \in ShareLists(c) :
                op' = Call("CombineAny", <<m, shares>>,
                           CombineShares(pk, shares))
    /\ cached' = Cache(pk, cached)
    /\ pk' = KeyAfterCache(pk)
    /\ callers' = callers
    /\ gen' = gen
    /\ UNCHANGED <<keyShares, ct, acc, dec, prf>>

\* sampled values for the draws of the provers: x, with the ends of [0, N)
\* and of [0, N^s), and u, v and s of RandomModNToSPlusOneStar
BlindSample(key) ==
    {[x |-> 0, u |-> 5, v |-> 2, s |-> 3],
     [x |-> key.N - 1, u |-> 2, v |-> 3, s |-> 2],
     [x |-> Pow(key.N, key.S) - 1, u |-> 2, v |-> 3, s |-> 2]}

\* the draws of the provers: x is what RandomModN can return
Blinds(key) == {bl \in BlindSample(key) : InModNRange(key, bl.x)}

\* sampled draws of RandomInt(numBits) in DecryptProof
ProofRands == {1, 77}

\* pk.EncryptWithProof(m)
EncryptWithProof ==
    /\ Len(ct) = 0 /\ ~acc.set /\ ~dec.set /\ prf.kind = "none"
    /\ op.name = "NewFixedKey" /\ callers = NoCallers
    /\ \E m \in Msgs(pk), r \in Stars(pk), bl \in Blinds(pk) :
         LET c == EncryptFixed(pk, m, r)
             proof == EncryptProof(pk, m, c, r, bl.x, bl.u)
         IN  /\ prf' = [NoPrf EXCEPT !.kind = "enc", !.zk = proof.zk,
                                     !.c = c, !.err = proof.err]
             /\ op' = Call("EncryptWithProof", <<m, r, bl.x, bl.u>>,
                           [err |-> proof.err, val |-> c])
    /\ cached' = Cache(pk, cached)
    /\ pk' = KeyAfterCache(pk)
    /\ callers' = callers
    /\ gen' = gen
    /\ UNCHANGED <<keyShares, ct, acc, dec>>

\* values next to [0, N^(s+1)) a caller may hand over as a ciphertext
OutOfRange(key) == {-1, Pow(key.N, key.S + 1)}

\* the outcomes of the draw of gamma in Multiply: a sampled value, or NIL
\* when rand.Int returns an error
GammaDraws(key) == Stars(key) \cup {NIL}

\* pk.MultiplyWithProof(c, alpha) on a ciphertext returned by Encrypt or on
\* a value outside the range
MultiplyCiphertextWithProof ==
    /\ Len(ct) = 1 /\ ~acc.set /\ ~dec.set /\ prf.kind = "none"
    /\ \E c \in {ct[1].c} \cup OutOfRange(pk), alpha \in Alphas(pk),
          gamma \in GammaDraws(pk), bl \in Blinds(pk) :
         LET res == MultiplyWithProof(pk, c, alpha, gamma,
                                      bl.s, bl.x, bl.u, bl.v)
         IN  /\ prf' = [NoPrf EXCEPT !.kind = "mul", !.zk = res.zk,
                                     !.d = res.val, !.ca = c,
                                     !.err = res.err]
             /\ op' = Call("MultiplyWithProof", <<c, alpha, gamma, bl.x>>,
                           [err |-> res.err, val |-> res.val])
    /\ cached' = Cache(pk, cached)
    /\ pk' = KeyAfterCache(pk)
    /\ callers' = callers
    /\ gen' = gen
    /\ UNCHANGED <<keyShares, ct, acc, dec>>

\* ciphertexts of [0, N^(s+1)) a caller may hand over besides its own
RawCiphertexts(key) == {0, key.N}

\* share.Decrypt(c) by one share holder
DecryptWithProof ==
    /\ Len(ct) = 1 /\ ~acc.set /\ ~dec.set /\ prf.kind = "none"
    /\ \E c \in {ct[1].c} \cup RawCiphertexts(pk) \cup OutOfRange(pk),
          i \in 1..Len(keyShares), r \in ProofRands :
         LET res == Decrypt(pk, keyShares[i], c, r)
         IN  /\ prf' = [NoPrf EXCEPT !.kind = "dec", !.zk = res.zk,
                                     !.c = c, !.ds = res.ds, !.err = res.err]
             /\ op' = Call("Decrypt", <<c, i, r>>,
                           [err |-> res.err, val |-> res.ds.Ci])
             /\ keyShares' = [keyShares EXCEPT
                                 ![i] = ShareAfterDecryption(keyShares[i])]
    /\ cached' = Cache(pk, cached)
    /\ pk' = KeyAfterCache(pk)
    /\ callers' = callers
    /\ gen' = gen
    /\ UNCHANGED <<ct, acc, dec>>

\* the components of each kind of proof and the values verified with it
ProofFields(kind) ==
    CASE kind = "enc" -> {"B", "W", "Z"}
      [] kind = "mul" -> {"CAlpha", "A", "B", "W", "Y", "Z"}
      [] kind = "dec" -> {"V", "Vi", "Z", "E"}
      [] OTHER -> {}

ContextFields(kind) ==
    CASE kind = "enc" -> {"c"}
      [] kind = "mul" -> {"d", "ca"}
      [] kind = "dec" -> {"c", "Ci"}
      [] OTHER -> {}

\* the value of a proof component or verified value
FieldOf(p, what) ==
    CASE what \in ProofFields(p.kind) -> p.zk[what]
      [] what = "c" -> p.c
      [] what = "d" -> p.d
      [] what = "ca" -> p.ca
      [] what = "Ci" -> p.ds.Ci

\* p with one proof component or verified value replaced
WithField(p, what, v) ==
    CASE what \in ProofFields(p.kind) -> [p EXCEPT !.zk[what] = v]
      [] what = "c" -> [p EXCEPT !.c = v]
      [] what = "d" -> [p EXCEPT !.d = v]
      [] what = "ca" -> [p EXCEPT !.ca = v]
      [] what = "Ci" -> [p EXCEPT !.ds.Ci = v]

\* zk.Verify(pk, ...) of the kind of proof p holds
VerifyProof(key, p) ==
    CASE p.kind = "enc" -> VerifyEncrypt(key, p.zk, p.c)
      [] p.kind = "mul" -> VerifyMul(key, p.zk, p.d, p.ca)
      [] p.kind = "dec" -> VerifyDecryptShare(key, p.zk, p.c, p.ds)

\* the calls that return a proof
Provers == {"EncryptWithProof", "MultiplyWithProof", "Decrypt"}

\* the verifier is called with the prover's values
Verify ==
    /\ prf.kind # "none" /\ prf.err = "" /\ op.name \in Provers
    /\ op' = Call("Verify", <<>>, [err |-> VerifyProof(pk, prf), val |-> 0])
    /\ cached' = Cache(pk, cached)
    /\ pk' = KeyAfterCache(pk)
    /\ callers' = callers
    /\ gen' = gen
    /\ UNCHANGED <<keyShares, ct, acc, dec, prf>>

\* the amounts by which a changed value differs from the prover's
Offsets(key) == {1, Pow(key.N, key.S), Pow(key.N, key.S + 1)}

\* the verifier is called with one value changed
VerifyChanged ==
    /\ prf.kind # "none" /\ prf.err = "" /\ op.name \in Provers
    /\ \E what \in ProofFields(prf.kind) \cup ContextFields(prf.kind),
          off \in Offsets(pk) :
         LET v == FieldOf(prf, what) + off
         IN  op' = [Call("VerifyChanged", <<v>>,
                         [err |-> VerifyProof(pk, WithField(prf, what, v)),
                          val |-> 0])
                    EXCEPT !.what = what]
    /\ cached' = Cache(pk, cached)
    /\ pk' = KeyAfterCache(pk)
    /\ callers' = callers
    /\ gen' = gen
    /\ UNCHANGED <<keyShares, ct, acc, dec, prf>>

NextHom ==
    \/ Encrypt
    \/ EncryptFixedValue
    \/ AddValues
    \/ AddCiphertexts
    \/ MultiplyCiphertext
    \/ PartialDecrypt
    \/ Combine

SpecHom == Init /\ [][NextHom]_vars

NextKey ==
    \/ GenerateKey
    \/ EvalPolynomial

SpecKey == InitKey /\ [][NextKey]_vars

NextLagrange ==
    \/ LagrangeCoefficient

SpecLagrange == InitKey /\ [][NextLagrange]_vars

NextBits ==
    \/ NumBitsOf

SpecBits == InitKey /\ [][NextBits]_vars

NextPrimes ==
    \/ NewKeyCall
    \/ SafePrimeStep

SpecPrimes == InitKey /\ [][NextPrimes]_vars

NextCache ==
    \/ \E t \in 1..NCallers : CacheCall(t)
    \/ \E t \in 1..NCallers : CacheCheck(t)
    \/ \E t \in 1..NCallers : CacheInit(t)
    \/ \E t \in 1..NCallers : CacheReturn(t)

SpecCache == Init /\ [][NextCache]_vars

NextShares ==
    \/ CombineAny

SpecShares == Init /\ [][NextShares]_vars

NextZK ==
    \/ Encrypt
    \/ EncryptWithProof
    \/ MultiplyCiphertextWithProof
    \/ DecryptWithProof
    \/ Verify
    \/ VerifyChanged

SpecZK == Init /\ [][NextZK]_vars

Next ==
    \/ NextCache
    \/ NextHom
    \/ NextShares
    \/ NextZK

Spec == Init /\ [][Next]_vars

(***************************************************************************)
(* Properties                                                              *)
(***************************************************************************)
\* N^s and N^(s+1) of the key in use
PlainModulus == Pow(pk.N, pk.S)
CipherModulus == Pow(pk.N, pk.S + 1)

RECURSIVE SumSeq(_)
SumSeq(xs) == IF xs = <<>> THEN 0 ELSE Head(xs) + SumSeq(Tail(xs))

RECURSIVE ProdSeq(_, _)
\* the product of xs mod m
ProdSeq(xs, m) ==
    IF xs = <<>> THEN 1 % m ELSE ((Head(xs) % m) * ProdSeq(Tail(xs), m)) % m

\* the plaintext, before any reduction, that a known ciphertext stands for
Expected(k) ==
    CASE k.by = "Add" -> SumSeq(k.ms)
      [] k.by = "Multiply" -> k.alpha * k.ms[1]
      [] OTHER -> k.ms[1]

\* every plaintext that went into k is in [0, N^s)
InPlainRange(k) == \A i \in 1..Len(k.ms) : k.ms[i] \in 0..(PlainModulus - 1)

\* some plaintext that went into k is not below N
Overflows(k) == \E i \in 1..Len(k.ms) : k.ms[i] >= pk.N

\* CombineShares has just been applied to k distinct shares of a ciphertext
\* made by the call named by, all of whose random draws are coprime to N
Combined(by) ==
    /\ op.name = "CombineShares"
    /\ dec.of.by = by
    /\ dec.of.units

\* C1: for every s and every m in [0, N^s), CombineShares on any k distinct
\* shares of Encrypt(m) returns m mod N^s.
C1_DecryptionCorrect ==
    (Combined("Encrypt") /\ InPlainRange(dec.of))
        => (op.err = "" /\ op.val = Expected(dec.of) % PlainModulus)

\* C2: for plaintexts in [0, N^s), decrypting the Add of a non-empty list of
\* their encryptions (repeats included) returns their sum mod N^s.
C2_AdditiveHomomorphism ==
    (Combined("Add") /\ InPlainRange(dec.of))
        => (op.err = "" /\ op.val = Expected(dec.of) % PlainModulus)

\* C3: decrypting Multiply(Encrypt(m), alpha) returns (alpha * m) mod N^s.
C3_ScalarHomomorphism ==
    Combined("Multiply")
        => (op.err = "" /\ op.val = Expected(dec.of) % PlainModulus)

\* C4: the proof a prover returns for an in-range ciphertext verifies
\* against the values it was made for, whatever the prover's draws.
C4_ProofCompleteness ==
    op.name = "Verify" => op.err = ""

\* C5: for s = 1 and s = 2, when a plaintext is not below N, decrypting
\* Add(E(m1), E(m2)) returns (m1 + m2) mod N and decrypting
\* Multiply(E(m), alpha) returns (m * alpha) mod N.
C5_OverflowReducesModN ==
    ((Combined("Add") \/ Combined("Multiply")) /\ Overflows(dec.of))
        => (op.err = "" /\ op.val = Expected(dec.of) % pk.N)

\* C5 witness: with s = 2 the sum of two encryptions of 64 = 2^bitlen(N)
\* decrypts to 128 mod N, which is not 128 mod N^s
C5_Witness ==
    /\ Combined("Add")
    /\ pk.S = 2
    /\ dec.of.ms = <<64, 64>>
    /\ op.err = ""
    /\ op.val = 128 % pk.N
    /\ op.val # 128 % PlainModulus

\* the components of a proof that do not enter its challenge hash
Responses == {"W", "Y", "Z"}

\* C6: changing one component of a verifying proof, or one of the values
\* verified with it, makes Verify return an error.  Stated for the responses
\* W, Y and Z, whose verdict no property of the hash function decides.
C6_ProofIntegrity ==
    (/\ op.name = "VerifyChanged"
     /\ op.what \in Responses
     /\ VerifyProof(pk, prf) = "")
        => op.err # ""

\* C7: a verifier returns an error, and neither accepts nor crashes, when a
\* proof component or verified value is outside [0, N^(s+1)).  Stated for
\* the responses W, Y and Z.
C7_OutOfRangeRejected ==
    (/\ op.name = "VerifyChanged"
     /\ op.what \in Responses
     /\ op.args[1] \notin 0..(CipherModulus - 1))
        => op.err = "zkproof failed"

\* C8: Add fails on an empty list, fails with a range error when any
\* argument, the first included, is not in (0, N^(s+1)), and succeeds
\* otherwise.
C8_AddChecksEveryArgument ==
    op.name = "Add"
        => op.err = (IF op.args = <<>> THEN "empty"
                     ELSE IF \E j \in 1..Len(op.args) :
                                op.args[j] \notin 1..(CipherModulus - 1)
                          THEN "range"
                     ELSE "")

\* C9: whenever Add succeeds, on one argument or more, its result is the
\* product of the arguments mod N^(s+1), a value of [0, N^(s+1)).
C9_AddIsProduct ==
    (op.name = "Add" /\ op.err = "")
        => (/\ op.val = ProdSeq(op.args, CipherModulus)
            /\ op.val \in 0..(CipherModulus - 1))

\* C10: Multiply(c, alpha) returns c' = c^alpha * gamma^(N^s) mod N^(s+1)
\* for its draw gamma of [1, N^(s+1) - 1], which is ReRand(c^alpha, gamma)
\* and Add(c^alpha, EncryptFixed(0, gamma)); the bare c^alpha is not returned.
C10_MultiplyReRandomizes ==
    (op.name = "Multiply" /\ op.err = "")
        => LET c == op.args[1]
               alpha == op.args[2]
               gamma == op.args[3]
               cToAlpha == PowMod(c, alpha, CipherModulus)
           IN  /\ gamma \in 1..(CipherModulus - 1)
               /\ op.val = (cToAlpha * PowMod(gamma, PlainModulus, CipherModulus))
                               % CipherModulus
               /\ op.val = ReRand(pk, cToAlpha, gamma).val
               /\ op.val = Add(pk, <<cToAlpha, EncryptFixed(pk, 0, gamma)>>).val

\* C10 witness: a Multiply whose result differs from the bare c^alpha
C10_Witness ==
    /\ op.name = "Multiply"
    /\ op.err = ""
    /\ op.args[2] > 1
    /\ op.val # PowMod(op.args[1], op.args[2], CipherModulus)

\* the shares handed to the last CombineShares on a list, the plaintext they
\* come from, and the k of them that are used
GivenShares == op.args[2]
GivenPlain == op.args[1]
UsedShares == SubSeq(GivenShares, 1, pk.K)

\* two of the k shares used carry the same index
UsedRepeat ==
    \E i, j \in 1..pk.K : i # j /\ UsedShares[i].Index = UsedShares[j].Index

\* C11: CombineShares given fewer than k shares returns an error and no
\* plaintext; given k or more, two of the k it uses carrying the same index,
\* it returns the repeated-share error.
C11_TooFewOrRepeated ==
    op.name = "CombineAny"
        => /\ Len(GivenShares) < pk.K => (op.err = "shares" /\ op.val = NIL)
           /\ (Len(GivenShares) >= pk.K /\ UsedRepeat)
                  => (op.err = "repeated" /\ op.val = NIL)

\* C11 witness: k shares with the same share twice are refused
C11_Witness ==
    /\ op.name = "CombineAny"
    /\ Len(GivenShares) = pk.K
    /\ GivenShares[1] = GivenShares[2]
    /\ GivenShares[1].Ci \in 0..(CipherModulus - 1)
    /\ op.err = "repeated"

\* C12: CombineShares returns a range error when the value of a share is
\* not in [0, N^(s+1)).  Stated for calls that pass the other checks: k or
\* more shares, the k used with distinct indexes, one of them out of range.
C12_ShareRangeChecked ==
    (/\ op.name = "CombineAny"
     /\ Len(GivenShares) >= pk.K
     /\ ~UsedRepeat
     /\ \E i \in 1..pk.K : UsedShares[i].Ci \notin 0..(CipherModulus - 1))
        => op.err = "range"

\* the k shares used are decryption shares of the ciphertext, all different
UsedValid ==
    /\ ~UsedRepeat
    /\ \A i \in 1..pk.K :
          UsedShares[i] \in SharePool(EncryptFixed(pk, GivenPlain, 2))
          /\ UsedShares[i].Ci \in 0..(CipherModulus - 1)

KeyIn == op.args[1]

\* the input constraints of key generation
ValidKeyInputs(in) ==
    /\ in.bitSize >= 64
    /\ in.s >= 1
    /\ in.l > 1
    /\ in.k >= (in.l \div 2) + 1
    /\ in.k <= in.l

\* C14: key generation returns an error and no key when bitSize < 64,
\* s < 1, l <= 1, k < floor(l/2) + 1 or k > l, and a key only when none of
\* these holds.
C14_KeyInputsChecked ==
    (op.name = "NewFixedKey" /\ op.args # <<>>)
        => IF ValidKeyInputs(KeyIn)
           THEN op.err = "" /\ pk # NoKey
           ELSE op.err # "" /\ pk = NoKey /\ keyShares = <<>>

RECURSIVE PolyAt(_, _, _)
\* the value at x of the polynomial with coefficients coeffs[1..j]:
\* the sum of coeffs[i] * x^(i-1)
PolyAt(coeffs, x, j) ==
    IF j = 0 THEN 0 ELSE PolyAt(coeffs, x, j - 1) + coeffs[j] * Pow(x, j - 1)

\* the secret d = m * (m^-1 mod N) and the modulus N * m of the shares
SecretM == FixedParams.P1 * FixedParams.Q1
SecretD == SecretM * ModInverse(SecretM, FixedParams.P * FixedParams.Q)
ShareModulus == FixedParams.P * FixedParams.Q * SecretM

\* the secret polynomial f of the last key generation at x, mod N * m
SecretPolyAt(x) ==
    PolyAt(<<SecretD>> \o KeyIn.draws.rs, x, KeyIn.k) % ShareModulus

\* C15: key generation returns l key shares; the share at place i (from 1)
\* has Index i, so the indices are 1..l in order and distinct, and
\* Si = f(Index): f is never evaluated at 0, where it is d.
C15_SharesIndexedFromOne ==
    (op.name = "NewFixedKey" /\ op.args # <<>> /\ op.err = "")
        => /\ Len(keyShares) = KeyIn.l
           /\ \A i \in 1..Len(keyShares) :
                 /\ keyShares[i].Index = i
                 /\ keyShares[i].Si = SecretPolyAt(i)
           /\ \A i, j \in 1..Len(keyShares) :
                 i # j => keyShares[i].Index # keyShares[j].Index

\* C15 witness: a key of three shares, none of them the secret d = f(0)
C15_Witness ==
    /\ op.name = "NewFixedKey" /\ op.args # <<>> /\ op.err = ""
    /\ KeyIn.l = 3 /\ KeyIn.k = 3
    /\ Len(keyShares) = 3
    /\ keyShares[3].Index = 3
    /\ \A i \in 1..3 : keyShares[i].Si # SecretD

\* the calls that take ciphertexts the caller keeps
TakesCiphertexts ==
    {"PartialDecryption", "Decrypt", "MultiplyWithProof", "EncryptWithProof",
     "Verify", "VerifyChanged"}

C17_CacheSafe ==
    \A t \in 1..NCallers :
        callers[t].pc = "done"
            => /\ callers[t].got.set
               /\ callers[t].got.NPlusOne = pk.N + 1
               /\ callers[t].got.NMinusOne = pk.N - 1
               /\ callers[t].got.NToS = PlainModulus
               /\ callers[t].got.NToSPlusOne = CipherModulus

\* C18: Encrypt(m) returns (c, r) with r in [1, N^(s+1) - 1] and
\* c = (N+1)^(m mod N^(s+1)) * r^(N^s) mod N^(s+1), which is
\* EncryptFixed(m, r) for the r returned.
C18_EncryptFormula ==
    op.name = "Encrypt"
        => LET m == op.args[1]
               r == op.args[2]
           IN  /\ op.err = ""
               /\ r \in 1..(CipherModulus - 1)
               /\ op.val = (PowMod(pk.N + 1, m % CipherModulus, CipherModulus)
                            * PowMod(r, PlainModulus, CipherModulus))
                               % CipherModulus
               /\ op.val = EncryptFixed(pk, m, r)
               /\ ct[Len(ct)] = [c |-> op.val, m |-> m, r |-> r]

\* C18 witness: with s = 2, an encryption of 64 that its randomness changes
C18_Witness ==
    /\ op.name = "Encrypt"
    /\ pk.S = 2
    /\ op.args[1] = 64
    /\ op.val # PowMod(pk.N + 1, 64, CipherModulus)
    /\ op.val \in 1..(CipherModulus - 1)

MultiplyStepFailed ==
    Multiply(pk, op.args[1], op.args[2], op.args[3]).err # ""

\* C20: every error is reported at the call site: when the Multiply step
\* inside MultiplyWithProof fails, MultiplyWithProof returns an error and
\* neither a result nor a proof, and does not go on to build a proof from
\* the nil results of the failed step.
C20_ErrorsReported ==
    (op.name = "MultiplyWithProof" /\ MultiplyStepFailed)
        => /\ op.err \notin {"", "panic"}
           /\ op.val = NIL
           /\ prf.zk = NoProof

\* whether (p, q) is a pair of safe primes: p = 2q + 1, both prime
SafePair(p, q) == p = 2 * q + 1 /\ ProbablyPrime(p) /\ ProbablyPrime(q)

\* C21: GenerateSafePrimes returns only pairs (p, q) with p = 2q + 1 and
\* both prime, tries again while the draw gives no such pair, and returns
\* the error of the random source; NewKey draws the second pair again until
\* p # q, p # q' and q # p'.
C21_SafePrimes ==
    /\ gen.pc = "p" => gen.P = 0 /\ (gen.cand # 0 => ~SafePair(2 * gen.cand + 1,
                                                               gen.cand))
    /\ gen.pc = "q"
         => /\ SafePair(gen.P, gen.P1)
            /\ gen.cand # 0
                 => \/ ~SafePair(2 * gen.cand + 1, gen.cand)
                    \/ gen.P = 2 * gen.cand + 1
                    \/ gen.P = gen.cand
                    \/ gen.P1 = 2 * gen.cand + 1
    /\ gen.pc = "done"
         => \/ /\ op.err = "prime"
               /\ gen.Q = 0 /\ gen.Q1 = 0
               /\ gen.P = 0 \/ SafePair(gen.P, gen.P1)
            \/ /\ op.err # "prime"
               /\ SafePair(gen.P, gen.P1)
               /\ SafePair(gen.Q, gen.Q1)
               /\ gen.P # gen.Q /\ gen.P # gen.Q1 /\ gen.Q # gen.P1

\* C21 witness: NewKey has returned with two different pairs after a second
\* pair equal to the first was drawn and dropped
C21_Witness ==
    /\ gen.pc = "done"
    /\ op.name = "NewKey"
    /\ op.err # "prime"
    /\ gen.cand = gen.P1
    /\ gen.Q # gen.P

\* the verification value of a key share: V^(Delta * Si) mod N^(s+1)
VerificationValue(share) ==
    PowMod(pk.V % CipherModulus, pk.Delta * share.Si, CipherModulus)

\* C22: Vi has exactly l entries, the entry at position Index - 1 is
\* V^(Delta * Si) mod N^(s+1) of the share with that Index, and the
\* decryption-share prover reads that entry, which always exists.
C22_VerificationValues ==
    /\ Len(pk.Vi) = pk.L
    /\ Len(keyShares) = pk.L
    /\ \A i \in 1..Len(keyShares) :
         /\ keyShares[i].Index \in 1..Len(pk.Vi)
         /\ pk.Vi[keyShares[i].Index] = VerificationValue(keyShares[i])
    /\ (op.name = "Decrypt" /\ op.err = "")
         => /\ prf.zk.Vi = VerificationValue(keyShares[op.args[2]])
            /\ prf.zk.V = pk.V

\* C22 witness: a proof by the last share of a key whose verification
\* values differ from one another
C22_Witness ==
    /\ op.name = "Decrypt" /\ op.err = ""
    /\ op.args[2] = pk.L
    /\ prf.ds.Index = pk.L
    /\ prf.zk.Vi = pk.Vi[pk.L]
    /\ prf.zk.Vi # pk.Vi[1]

\* l!
RECURSIVE Factorial(_)
Factorial(l) == IF l <= 1 THEN 1 ELSE l * Factorial(l - 1)

\* the shares the last CombineShares call of Combine was given
CombinedShares == [i \in 1..Len(op.args) |-> dec.shares[op.args[i]]]

\* L = (c' - 1) / N of the last CombineShares call
CombinedL ==
    (CombineLoop(pk, CombinedShares, Len(CombinedShares), CipherModulus).val
        - 1) \div pk.N

\* C23: Delta = l!, Constant * 4 * Delta^2 mod N^s = 1, and CombineShares
\* multiplies L by Constant modulo that same N^s.
C23_ConstantModulus ==
    /\ pk.Delta = Factorial(pk.L)
    /\ MulMod(pk.Constant, 4 * pk.Delta * pk.Delta, PlainModulus) = 1
    /\ (op.name = "CombineShares" /\ op.err = "")
         => op.val = MulMod(pk.Constant, CombinedL, PlainModulus)

\* C24: d = m * (m^-1 mod N), so d mod m = 0 and d mod N = 1; the polynomial
\* has k coefficients, the first is d and the others are in [0, N * m); the
\* share with Index i is f(i) mod (N * m); eval returns the sum of
\* coeffs[j] * x^j (7591 for the coefficients 1, 9, 5, 7 at x = 10).
C24_SecretPolynomial ==
    /\ (op.name = "NewFixedKey" /\ op.args # <<>> /\ op.err = "")
         => LET d == op.val.d
                poly == op.val.poly
            IN  /\ d = SecretD
                /\ d % SecretM = 0
                /\ d % pk.N = 1
                /\ Len(poly) = pk.K
                /\ poly[1] = d
                /\ \A j \in 2..Len(poly) : poly[j] \in 0..(ShareModulus - 1)
                /\ \A i \in 1..Len(keyShares) :
                     keyShares[i].Si
                        = PolyAt(poly, keyShares[i].Index, Len(poly))
                              % ShareModulus
    /\ op.name = "eval"
         => op.val = PolyAt(op.args[1], op.args[2], Len(op.args[1]))

\* C24 witness: a key with a polynomial of three coefficients whose second
\* share is not the secret
C24_Witness ==
    /\ op.name = "NewFixedKey" /\ op.args # <<>> /\ op.err = ""
    /\ Len(op.val.poly) = 3
    /\ op.val.poly[3] # 0
    /\ keyShares[2].Si # op.val.d
    /\ keyShares[2].Si = PolyAt(op.val.poly, 2, 3) % ShareModulus

\* the numerator 2 * Delta * prod j and the denominator prod (j - i) of the
\* last lambda2, over the other indices j of the list
LagrangeNum ==
    2 * Factorial(op.args[1]) * LambdaNum(op.args[2], op.args[3],
                                          Len(op.args[2]))
LagrangeDen == LambdaDen(op.args[2], op.args[3], Len(op.args[2]))

\* C25: for every l and every list of k distinct indices of 1..l, the
\* denominator prod (j - i) divides 2 * Delta * prod j, so lambda2 is that
\* integer quotient, with nothing truncated.
C25_ExactLagrange ==
    op.name = "lambda2"
        => /\ LagrangeDen # 0
           /\ Abs(LagrangeNum) % Abs(LagrangeDen) = 0
           /\ op.val * LagrangeDen = LagrangeNum

\* C25 witness: a coefficient whose denominator divides neither prod j nor
\* 2 * prod j, only their multiple by Delta
C25_Witness ==
    /\ op.name = "lambda2"
    /\ Abs(LagrangeDen) > 2
    /\ (LagrangeNum \div Factorial(op.args[1])) % Abs(LagrangeDen) # 0
    /\ op.val < 0
    /\ op.val * LagrangeDen = LagrangeNum

\* c' of the last CombineShares call: the product of the Ci^lambda2
CombinedCPrime ==
    CombineLoop(pk, CombinedShares, Len(CombinedShares), CipherModulus).val

\* C26: in CombineShares on k distinct valid decryption shares of a
\* ciphertext returned by Encrypt, Add or Multiply, the combined value c' is
\* 1 modulo N, so (c' - 1) / N is exact; c' is computed whenever the random
\* draws that went into the ciphertext are coprime to N.
C26_CombinedIsOneModN ==
    (op.name = "CombineShares"
        /\ dec.of.by \in {"Encrypt", "Add", "Multiply"})
        => /\ dec.of.units => op.err = ""
           /\ op.err = ""
                => /\ CombinedCPrime % pk.N = 1
                   /\ CombinedL * pk.N = CombinedCPrime - 1

\* C26 witness: the shares of a product by a constant, with s = 2, combine
\* to a c' that is not 1 but is 1 modulo N
C26_Witness ==
    /\ op.name = "CombineShares"
    /\ dec.of.units
    /\ dec.of.by = "Multiply"
    /\ pk.S = 2
    /\ CombinedCPrime > pk.N
    /\ CombinedCPrime % pk.N = 1

\* the values {1, ..., N^(s+1) - 1}
CipherRange == 1..(CipherModulus - 1)

\* whether every value of a list lies in {1, ..., N^(s+1) - 1}
AllInRange(xs) == \A i \in 1..Len(xs) : xs[i] \in CipherRange

\* whether every value of a list is coprime to N
AllUnits(xs) == \A i \in 1..Len(xs) : IsUnit(pk, xs[i])

\* C27 as stated: every ciphertext returned by Encrypt, EncryptFixed, Add or
\* Multiply (which ends with ReRand) on inputs of {1, ..., N^(s+1) - 1} and
\* randomness of [1, N^(s+1) - 1] lies in {1, ..., N^(s+1) - 1}.
C27_NeverZero ==
    /\ (op.name \in {"Encrypt", "EncryptFixed"} /\ op.args[2] \in CipherRange)
         => op.val \in CipherRange
    /\ (op.name = "Add" /\ op.err = "" /\ AllInRange(op.args))
         => op.val \in CipherRange
    /\ (op.name = "AddCiphertexts" /\ op.err = "")
         => op.val \in CipherRange
    /\ (op.name = "Multiply" /\ op.err = "" /\ op.args[1] \in CipherRange
            /\ op.args[3] \in CipherRange)
         => op.val \in CipherRange

\* C27 with the randomness and the input ciphertexts coprime to N: the
\* ciphertext returned lies in {1, ..., N^(s+1) - 1} and is coprime to N.
C27_UnitsNeverZero ==
    /\ (op.name \in {"Encrypt", "EncryptFixed"} /\ op.args[2] \in CipherRange
            /\ IsUnit(pk, op.args[2]))
         => (op.val \in CipherRange /\ IsUnit(pk, op.val))
    /\ (op.name = "Add" /\ op.err = "" /\ AllInRange(op.args)
            /\ AllUnits(op.args))
         => (op.val \in CipherRange /\ IsUnit(pk, op.val))
    /\ (op.name = "AddCiphertexts" /\ op.err = "" /\ acc.units)
         => (op.val \in CipherRange /\ IsUnit(pk, op.val))
    /\ (op.name = "Multiply" /\ op.err = "" /\ op.args[1] \in CipherRange
            /\ op.args[3] \in CipherRange /\ acc.units)
         => (op.val \in CipherRange /\ IsUnit(pk, op.val))

\* C27 witness: a product by a constant, rerandomized with a unit, of an
\* encryption made with a unit
C27_Witness ==
    /\ op.name = "Multiply" /\ op.err = ""
    /\ acc.units
    /\ op.args[2] = 25
    /\ op.val \in CipherRange
    /\ IsUnit(pk, op.val)
    /\ op.val # 1

\* the response (x + e * m) mod N^s of a prover and the quotient t
ResponseW(x, e, m) == (x + e * m) % PlainModulus
ResponseT(x, e, m) == (x + e * m) \div PlainModulus

\* C28: in the encryption and multiplication provers x is drawn from the
\* whole of [0, N^s), for every s, and the response is split as
\* w = (x + e * m) mod N^s in [0, N^s) and t = (x + e * m) div N^s.
C28_BlindingRange ==
    /\ op.name \in {"EncryptWithProof", "MultiplyWithProof"}
         => \A bl \in BlindSample(pk) :
               bl.x \in 0..(PlainModulus - 1) => bl \in Blinds(pk)
    /\ (op.name = "EncryptWithProof" /\ op.err = "")
         => LET e == HashInts(<<prf.c, prf.zk.B>>)
                x == op.args[3]
                m == op.args[1]
            IN  /\ prf.zk.W = ResponseW(x, e, m)
                /\ prf.zk.W \in 0..(PlainModulus - 1)
                /\ prf.zk.Z
                     = MulMod(MulMod(op.args[4],
                                     PowMod(op.args[2], e, CipherModulus),
                                     CipherModulus),
                              PowMod(pk.N + 1, ResponseT(x, e, m),
                                     CipherModulus),
                              CipherModulus)
    /\ (op.name = "MultiplyWithProof" /\ op.err = "")
         => LET e == HashInts(<<prf.ca, prf.zk.CAlpha, prf.d, prf.zk.A,
                                prf.zk.B>>)
            IN  /\ prf.zk.W = ResponseW(op.args[4], e, op.args[2])
                /\ prf.zk.W \in 0..(PlainModulus - 1)

\* C29: the decryption-share prover draws r from [0, 2^B) with
\* B = (s + 2) * k + 256 for every s of 1..255 and every k; the bit count is
\* never smaller.
C29_ProofRandomBits ==
    op.name = "numBits"
        => op.val = (op.args[1] + 2) * op.args[2] + 256

\* the rearrangements of 1..n
Rearrangements(n) ==
    {f \in [1..n -> 1..n] : \A i, j \in 1..n : i # j => f[i] # f[j]}

\* C30: Add returns the same outcome on a list of ciphertexts and on every
\* rearrangement of it: the same ciphertext, or an error for both.
C30_AddSymmetric ==
    op.name = "Add"
        => \A f \in Rearrangements(Len(op.args)) :
              LET other == Add(pk, [i \in 1..Len(op.args) |-> op.args[f[i]]])
              IN  /\ (other.err = "") <=> (op.err = "")
                  /\ op.err = "" => other.val = op.val

=============================================================================
